---- MODULE Spec2Model ----
(***************************************************************************)
(* A model of src/lib/snyk-to-html.ts: the promise chain of SnykToHtml.run *)
(* (read, JSON.parse, processData, callback / catch), the grouping loop of *)
(* groupVulns, the reducers of mergeData and the getRemediation helper.    *)
(*                                                                         *)
(* JavaScript values.  A property that may be missing is modelled as a     *)
(* sequence: <<>> is undefined (for a number also NaN, the only other      *)
(* not-a-number outcome of the arithmetic here) and <<v>> is the value v.  *)
(* A report's vulnerabilities field is a record [kind, items] with kind    *)
(* "undefined" (missing or null), "object" (a truthy value that is no      *)
(* array), "array" (items is the list) or, after generateTemplate has      *)
(* overwritten it, "grouped" (items is the mapping id -> group).           *)
(***************************************************************************)
EXTENDS Integers, Sequences, FiniteSets, TLC

VARIABLES
    pc,            \* position in the promise chain of SnykToHtml.run
    input,         \* what the source holds: read outcome, text, parsed value
    summaryFlag,   \* the `summary` argument of run
    data,          \* mergedData / the `data` object generateTemplate mutates
    vulns,         \* groupVulns: its argument
    idx,           \* groupVulns: index of the next element vulns.map visits
    result,        \* groupVulns: const result = {}
    uniqueCount,   \* groupVulns: let uniqueCount
    pathsCount,    \* groupVulns: let pathsCount
    vulnMetadata,  \* generateTemplate: const vulnMetadata (<<>> before the return)
    partials,      \* Handlebars partials registered so far
    rendered,      \* the string the template produced (<<>> when none)
    error,         \* the rejection travelling down the chain (<<>> when none)
    callbackArgs,  \* the values reportCallback was invoked with
    consoleLog,    \* the values console.log was invoked with
    mpc,           \* mergeData: position
    mArg,          \* mergeData: dataArray
    mOut,          \* mergeData: the locals computed so far
    rpc,           \* getRemediation: position (the return statement taken)
    rDescription,  \* getRemediation: description argument
    rFixedIn,      \* getRemediation: fixedIn argument
    rIndex,        \* getRemediation: const index
    rOut           \* getRemediation: returned value (<<>> when none)

vars == <<pc, input, summaryFlag, data, vulns, idx, result, uniqueCount,
          pathsCount, vulnMetadata, partials, rendered, error, callbackArgs,
          consoleLog, mpc, mArg, mOut, rpc, rDescription, rFixedIn, rIndex, rOut>>

pipeVars == <<pc, input, summaryFlag, data, vulns, idx, result, uniqueCount,
              pathsCount, vulnMetadata, partials, rendered, error, callbackArgs,
              consoleLog>>

mergeVars == <<mpc, mArg, mOut>>

remVars == <<rpc, rDescription, rFixedIn, rIndex, rOut>>

----------------------------------------------------------------------------
(* Bounds of the model. *)

\* longest vulnerabilities list of a single report
MaxVulns == 3

\* most reports in a multi-report document
MaxReports == 2

\* longest vulnerabilities list of one report handed to mergeData alone
MaxMergeVulns == 2

\* longest vulnerabilities list of one report of a multi-report document
MaxReportVulns == 1

\* largest dependencyCount of a report
MaxDep == 1

\* longest description (in tokens) handed to getRemediation
MaxDescLen == 4

\* longest fixedIn list handed to getRemediation
MaxFixedIn == 2

----------------------------------------------------------------------------
(* JavaScript helpers. *)

SeqsUpTo(S, n) == UNION {[1..k -> S] : k \in 0..n}

\* a string-valued property is falsy when it is undefined or the empty string
FalsyStr(x) == x = <<>> \/ x = <<"">>

\* a number is falsy when it is NaN (or undefined) or 0
FalsyNum(x) == x = <<>> \/ x = <<0>>

\* a || b, a string-valued
OrStr(a, b) == IF FalsyStr(a) THEN b ELSE a

\* a || b, a number-valued
OrNum(a, b) == IF FalsyNum(a) THEN b ELSE a

\* a + b on numbers: undefined or NaN on either side gives NaN
JsPlus(a, b) == IF a = <<>> \/ b = <<>> THEN <<>> ELSE <<a[1] + b[1]>>

\* mutant: the guard tests only that vulns is truthy
IsArrayGuardTruthyOnly(v) == v.kind # "undefined"

\* vulns && Array.isArray(vulns)
IsArrayGuard(v) == v.kind = "array"

\* n + ' vulnerable dependency paths'
SummaryText(n) == ToString(n) \o " vulnerable dependency paths"

severityMap == [low |-> 0, medium |-> 1, high |-> 2]

\* own property names every object inherits from Object.prototype
ObjectPrototypeKeys ==
    {"constructor", "toString", "valueOf", "hasOwnProperty", "__proto__"}

\* severityMap[vuln.severity]
SeverityValue(sev) ==
    IF sev # <<>> /\ sev[1] \in DOMAIN severityMap THEN <<severityMap[sev[1]]>>
    ELSE <<>>

metadataForVuln(vuln) ==
    [id |-> vuln.id,
     title |-> vuln.title,
     name |-> vuln.name,
     info |-> OrStr(vuln.info, <<"No information available.">>),
     severity |-> vuln.severity,
     severityValue |-> SeverityValue(vuln.severity),
     description |-> OrStr(vuln.description, <<"No description available.">>),
     fixedIn |-> vuln.fixedIn,
     packageManager |-> vuln.packageManager]

----------------------------------------------------------------------------
(* groupVulns: the callback of vulns.map, on the locals of groupVulns. *)

\* result[id] is truthy: an own group, or a member inherited from Object.prototype
Truthy(res, id) == id \in DOMAIN res \/ id \in ObjectPrototypeKeys

\* result[vuln.id] = {list: [vuln], metadata: metadataForVuln(vuln)}
NewGroup(res, vuln) ==
    [k \in DOMAIN res \cup {vuln.id} |->
        IF k = vuln.id THEN [list |-> <<vuln>>, metadata |-> metadataForVuln(vuln)]
        ELSE res[k]]

\* mutant: a later occurrence also rewrites the group's metadata
PushVulnOverwritesMetadata(res, vuln) ==
    [res EXCEPT ![vuln.id] = [list |-> Append(@.list, vuln),
                              metadata |-> metadataForVuln(vuln)]]

\* result[vuln.id].list.push(vuln)
PushVuln(res, vuln) ==
    [res EXCEPT ![vuln.id] = [list |-> Append(@.list, vuln), metadata |-> @.metadata]]

\* mutant: uniqueCount++ sits outside the if, so every occurrence counts as unique
MapCallbackCountsEveryPath(st, vuln) ==
    IF ~Truthy(st.result, vuln.id)
    THEN [result |-> NewGroup(st.result, vuln),
          uniqueCount |-> st.uniqueCount + 1,
          pathsCount |-> st.pathsCount + 1,
          threw |-> FALSE]
    ELSE IF vuln.id \in DOMAIN st.result
    THEN [result |-> PushVuln(st.result, vuln),
          uniqueCount |-> st.uniqueCount + 1,
          pathsCount |-> st.pathsCount + 1,
          threw |-> FALSE]
    ELSE [st EXCEPT !.threw = TRUE]

\* the arrow function of lines 64-73, on st = [result, uniqueCount, pathsCount, threw]
MapCallback(st, vuln) ==
    IF ~Truthy(st.result, vuln.id)
    THEN [result |-> NewGroup(st.result, vuln),
          uniqueCount |-> st.uniqueCount + 1,
          pathsCount |-> st.pathsCount + 1,
          threw |-> FALSE]
    ELSE IF vuln.id \in DOMAIN st.result
    THEN [result |-> PushVuln(st.result, vuln),
          uniqueCount |-> st.uniqueCount,
          pathsCount |-> st.pathsCount + 1,
          threw |-> FALSE]
    \* result[id] is inherited: it has no list, and undefined.push throws
    ELSE [st EXCEPT !.threw = TRUE]

----------------------------------------------------------------------------
(* mergeData. *)

\* project.vulnerabilities || []
VulnsOrEmpty(project) ==
    IF project.vulnerabilities.kind = "array" THEN project.vulnerabilities.items
    ELSE <<>>

\* mutant: each report's list is put in front of the lists gathered so far
RECURSIVE ConcatAllReversed(_)
ConcatAllReversed(arrays) ==
    IF arrays = <<>> THEN <<>>
    ELSE ConcatAllReversed(Tail(arrays)) \o Head(arrays)

\* [].concat(...vulnsArrays)
RECURSIVE ConcatAll(_)
ConcatAll(arrays) ==
    IF arrays = <<>> THEN <<>>
    ELSE Head(arrays) \o ConcatAll(Tail(arrays))

\* item.vulnerabilities.length throws a TypeError when vulnerabilities is missing
LengthThrows(item) == item.vulnerabilities.kind = "undefined"

\* (acc, item) => acc + item.vulnerabilities.length || 0
UniqueCountReducer(acc, item) ==
    OrNum(JsPlus(acc, <<Len(item.vulnerabilities.items)>>), <<0>>)

\* (acc, item) => acc + item.dependencyCount || 0
DepCountReducer(acc, item) == OrNum(JsPlus(acc, item.dependencyCount), <<0>>)

\* dataArray.reduce(UniqueCountReducer, acc), lines 112-113
RECURSIVE TotalUniqueCount(_, _)
TotalUniqueCount(dataArray, acc) ==
    IF dataArray = <<>> THEN acc
    ELSE TotalUniqueCount(Tail(dataArray), UniqueCountReducer(acc, Head(dataArray)))

\* dataArray.reduce(DepCountReducer, acc), lines 114-115
RECURSIVE TotalDepCount(_, _)
TotalDepCount(dataArray, acc) ==
    IF dataArray = <<>> THEN acc
    ELSE TotalDepCount(Tail(dataArray), DepCountReducer(acc, Head(dataArray)))

\* dataArray.map(project => project.vulnerabilities || [])
VulnsArrays(dataArray) == [i \in 1..Len(dataArray) |-> VulnsOrEmpty(dataArray[i])]

\* dataArray.map(project => ({path, packageManager}))
Paths(dataArray) ==
    [i \in 1..Len(dataArray) |->
        [path |-> dataArray[i].path, packageManager |-> dataArray[i].packageManager]]

\* the first reduce throws as soon as it visits a report without vulnerabilities
MergeThrows(dataArray) == \E i \in 1..Len(dataArray) : LengthThrows(dataArray[i])

\* the object mergeData returns
MergedObject(aggregate, totalUnique, totalDep, paths) ==
    [vulnerabilities |-> [kind |-> "array", items |-> aggregate],
     uniqueCount |-> totalUnique,
     summary |-> <<SummaryText(Len(aggregate))>>,
     dependencyCount |-> totalDep,
     paths |-> <<paths>>,
     path |-> <<>>,
     packageManager |-> <<>>,
     showSummaryOnly |-> <<>>]

mergeData(dataArray) ==
    IF MergeThrows(dataArray) THEN [threw |-> TRUE, value |-> <<>>]
    ELSE [threw |-> FALSE,
          value |-> <<MergedObject(ConcatAll(VulnsArrays(dataArray)),
                                   TotalUniqueCount(dataArray, <<0>>),
                                   TotalDepCount(dataArray, <<0>>),
                                   Paths(dataArray))>>]

\* a single report, as the `data` object generateTemplate receives
SingleObject(report) ==
    [vulnerabilities |-> report.vulnerabilities,
     uniqueCount |-> <<>>,
     summary |-> <<>>,
     dependencyCount |-> report.dependencyCount,
     paths |-> <<>>,
     path |-> report.path,
     packageManager |-> report.packageManager,
     showSummaryOnly |-> <<>>]

----------------------------------------------------------------------------
(* The inputs the model draws. *)

Vuln(id, title, info, severity, description) ==
    [id |-> id, title |-> title, name |-> "pkg", info |-> info,
     severity |-> severity, description |-> description,
     fixedIn |-> <<"1.2.3">>, packageManager |-> "npm"]

\* occurrences: three of one identifier with different optional fields, two of
\* another, and one whose identifier names a member of Object.prototype
Vulns ==
    {Vuln("npm:ms", "ReDoS", <<"info 1">>, <<"high">>, <<"## Overview 1">>),
     Vuln("npm:ms", "ReDoS 2", <<>>, <<"low">>, <<"## Overview 2">>),
     Vuln("npm:ms", "ReDoS 3", <<"">>, <<"medium">>, <<>>),
     Vuln("npm:qs", "XSS", <<>>, <<>>, <<"">>),
     Vuln("npm:qs", "XSS 2", <<"info 2">>, <<"urgent">>, <<"## Overview 1">>),
     Vuln("constructor", "DoS", <<"info 1">>, <<"high">>, <<"## Overview 1">>)}

\* the occurrences of the reports of a multi-report document
ReportVulns ==
    {Vuln("npm:ms", "ReDoS", <<"info 1">>, <<"high">>, <<"## Overview 1">>),
     Vuln("npm:qs", "XSS", <<>>, <<>>, <<"">>)}

Missing == [kind |-> "undefined", items |-> <<>>]

NotAnArray == [kind |-> "object", items |-> <<>>]

Arrays(S, n) == {[kind |-> "array", items |-> xs] : xs \in SeqsUpTo(S, n)}

Report(vulnerabilities, dependencyCount) ==
    [vulnerabilities |-> vulnerabilities, dependencyCount |-> dependencyCount,
     path |-> <<"/app">>, packageManager |-> <<"npm">>]

\* a single report: any shape of vulnerabilities field
SingleReports ==
    {Report(v, d) : v \in {Missing, NotAnArray} \cup Arrays(Vulns, MaxVulns),
                    d \in {<<>>, <<MaxDep>>}}

\* a report of a multi-report document: a list, or no vulnerabilities field
MultiReports ==
    {Report(v, d) : v \in {Missing} \cup Arrays(ReportVulns, MaxReportVulns),
                    d \in {<<>>, <<MaxDep>>}}

\* the values JSON.parse may return: one report, or an array of reports
Documents ==
    {[isArray |-> FALSE, reports |-> <<r>>] : r \in SingleReports}
    \cup {[isArray |-> TRUE, reports |-> rs] : rs \in SeqsUpTo(MultiReports, MaxReports)}

EmptyDocument == [isArray |-> TRUE, reports |-> <<>>]

\* the source: unreadable, readable but no JSON, or a document
Inputs ==
    {[read |-> "error", text |-> "none", parsed |-> EmptyDocument],
     [read |-> "ok", text |-> "garbage", parsed |-> EmptyDocument]}
    \cup {[read |-> "ok", text |-> "json", parsed |-> d] : d \in Documents}

\* the reports mergeData is applied to on its own
MergeReports ==
    {Report(v, d) : v \in {Missing} \cup Arrays(ReportVulns, MaxMergeVulns),
                    d \in {<<>>} \cup {<<n>> : n \in 1..MaxDep}}

NoMergeOut ==
    [aggregateVulnerabilities |-> <<>>, totalUniqueCount |-> <<>>,
     totalDepCount |-> <<>>, returned |-> <<>>]

----------------------------------------------------------------------------
(* SnykToHtml.run: the promise chain. *)

PipeIdle ==
    /\ pc = "idle" /\ input = [read |-> "ok", text |-> "none", parsed |-> EmptyDocument]
    /\ summaryFlag = FALSE

PipeLocalsInit ==
    /\ data = <<>> /\ vulns = Missing /\ idx = 1 /\ result = <<>>
    /\ uniqueCount = 0 /\ pathsCount = 0 /\ vulnMetadata = <<>>
    /\ partials = <<>> /\ rendered = <<>> /\ error = <<>>
    /\ callbackArgs = <<>> /\ consoleLog = <<>>

MergeIdle == mpc = "idle" /\ mArg = <<>> /\ mOut = NoMergeOut

RemIdle ==
    /\ rpc = "idle" /\ rDescription = <<>> /\ rFixedIn = Missing
    /\ rIndex = <<>> /\ rOut = <<>>

Init ==
    /\ pc = "read"
    /\ input \in Inputs
    /\ summaryFlag \in BOOLEAN
    /\ PipeLocalsInit
    /\ MergeIdle
    /\ RemIdle

Reject(e) ==
    /\ error' = <<e>>
    /\ pc' = "catch"

\* readFile / readInputFromStdin: the promise resolves with the text or rejects
ReadSource ==
    /\ pc = "read"
    /\ IF input.read = "error"
       THEN Reject("IOError")
       ELSE pc' = "parse" /\ error' = error
    /\ UNCHANGED <<input, summaryFlag, data, vulns, idx, result, uniqueCount,
                   pathsCount, vulnMetadata, partials, rendered, callbackArgs,
                   consoleLog, mergeVars, remVars>>

\* .then(JSON.parse)
Parse ==
    /\ pc = "parse"
    /\ IF input.text # "json"
       THEN Reject("SyntaxError")
       ELSE pc' = "process" /\ error' = error
    /\ UNCHANGED <<input, summaryFlag, data, vulns, idx, result, uniqueCount,
                   pathsCount, vulnMetadata, partials, rendered, callbackArgs,
                   consoleLog, mergeVars, remVars>>

\* processData, and generateTemplate up to the entry of groupVulns
ProcessData ==
    /\ pc = "process"
    /\ LET merged == IF input.parsed.isArray THEN mergeData(input.parsed.reports)
                     ELSE [threw |-> FALSE,
                           value |-> <<SingleObject(input.parsed.reports[1])>>]
       IN IF merged.threw
          THEN /\ Reject("TypeError")
               /\ UNCHANGED <<data, vulns>>
          ELSE /\ data' = merged.value
               /\ vulns' = merged.value[1].vulnerabilities
               /\ pc' = "group"
               /\ error' = error
    /\ idx' = 1 /\ result' = <<>> /\ uniqueCount' = 0 /\ pathsCount' = 0
    /\ UNCHANGED <<input, summaryFlag, vulnMetadata, partials, rendered,
                   callbackArgs, consoleLog, mergeVars, remVars>>

\* vulns.map is a function: only an array has the method
HasMap(v) == v.kind = "array"

\* vulns.map(...): one call of its callback (a TypeError when vulns has no map)
GroupVuln ==
    /\ pc = "group"
    /\ IsArrayGuard(vulns)
    /\ ~HasMap(vulns) \/ idx <= Len(vulns.items)
    /\ IF ~HasMap(vulns)
       THEN /\ Reject("TypeError")
            /\ UNCHANGED <<idx, result, uniqueCount, pathsCount>>
       ELSE LET st == MapCallback([result |-> result, uniqueCount |-> uniqueCount,
                                   pathsCount |-> pathsCount, threw |-> FALSE],
                                  vulns.items[idx])
            IN IF st.threw
               THEN /\ Reject("TypeError")
                    /\ UNCHANGED <<idx, result, uniqueCount, pathsCount>>
               ELSE /\ result' = st.result
                    /\ uniqueCount' = st.uniqueCount
                    /\ pathsCount' = st.pathsCount
                    /\ idx' = idx + 1
                    /\ UNCHANGED <<pc, error>>
    /\ UNCHANGED <<input, summaryFlag, data, vulns, vulnMetadata, partials,
                   rendered, callbackArgs, consoleLog, mergeVars, remVars>>

\* the return statement of groupVulns
GroupReturn ==
    /\ pc = "group"
    /\ ~IsArrayGuard(vulns) \/ (HasMap(vulns) /\ idx > Len(vulns.items))
    /\ vulnMetadata' = <<[vulnerabilities |-> result,
                          vulnerabilitiesUniqueCount |-> uniqueCount,
                          vulnerabilitiesPathsCount |-> pathsCount]>>
    /\ pc' = "assign"
    /\ UNCHANGED <<input, summaryFlag, data, vulns, idx, result, uniqueCount,
                   pathsCount, partials, rendered, error, callbackArgs,
                   consoleLog, mergeVars, remVars>>

\* mutant: uniqueCount and summary are set only when the merger left none
ContextKeepsMergerCounts(d, vm, summary) ==
    [d EXCEPT !.vulnerabilities = [kind |-> "grouped", items |-> vm.vulnerabilities],
              !.uniqueCount = IF @ = <<>> THEN <<vm.vulnerabilitiesUniqueCount>> ELSE @,
              !.summary = IF @ = <<>> THEN <<SummaryText(vm.vulnerabilitiesPathsCount)>>
                          ELSE @,
              !.showSummaryOnly = <<summary>>]

\* the four assignments to data in generateTemplate
Context(d, vm, summary) ==
    [d EXCEPT !.vulnerabilities = [kind |-> "grouped", items |-> vm.vulnerabilities],
              !.uniqueCount = <<vm.vulnerabilitiesUniqueCount>>,
              !.summary = <<SummaryText(vm.vulnerabilitiesPathsCount)>>,
              !.showSummaryOnly = <<summary>>]

AssignContext ==
    /\ pc = "assign"
    /\ data' = <<Context(data[1], vulnMetadata[1], summaryFlag)>>
    /\ pc' = "partial"
    /\ UNCHANGED <<input, summaryFlag, vulns, idx, result, uniqueCount,
                   pathsCount, vulnMetadata, partials, rendered, error,
                   callbackArgs, consoleLog, mergeVars, remVars>>

PartialNames == <<"inline-css", "vuln-card">>

\* await registerPeerPartial(template, name): the partial's file may be unreadable
RegisterPeerPartial ==
    /\ pc = "partial"
    /\ \E readable \in BOOLEAN :
         IF readable
         THEN /\ partials' = Append(partials, PartialNames[Len(partials) + 1])
              /\ pc' = IF Len(partials') = Len(PartialNames) THEN "compile" ELSE "partial"
              /\ error' = error
         ELSE /\ Reject("IOError")
              /\ partials' = partials
    /\ UNCHANGED <<input, summaryFlag, data, vulns, idx, result, uniqueCount,
                   pathsCount, vulnMetadata, rendered, callbackArgs, consoleLog,
                   mergeVars, remVars>>

\* htmlTemplate(data): the document, a function of the context
Render(context) == [template |-> "test-report.hbs", context |-> context]

\* compileTemplate(template) and the call of the compiled template
CompileAndRender ==
    /\ pc = "compile"
    /\ \E readable \in BOOLEAN :
         IF readable
         THEN /\ rendered' = <<Render(data[1])>>
              /\ pc' = "then"
              /\ error' = error
         ELSE /\ Reject("IOError")
              /\ rendered' = rendered
    /\ UNCHANGED <<input, summaryFlag, data, vulns, idx, result, uniqueCount,
                   pathsCount, vulnMetadata, partials, callbackArgs, consoleLog,
                   mergeVars, remVars>>

\* .then(reportCallback)
ReportCallback ==
    /\ pc = "then"
    /\ callbackArgs' = Append(callbackArgs, rendered[1])
    /\ pc' = "done"
    /\ UNCHANGED <<input, summaryFlag, data, vulns, idx, result, uniqueCount,
                   pathsCount, vulnMetadata, partials, rendered, error,
                   consoleLog, mergeVars, remVars>>

\* mutant: the rejection is handed to reportCallback as well
CatchLogCallsBack ==
    /\ pc = "catch"
    /\ consoleLog' = Append(consoleLog, error[1])
    /\ callbackArgs' = Append(callbackArgs, error[1])
    /\ pc' = "done"
    /\ UNCHANGED <<input, summaryFlag, data, vulns, idx, result, uniqueCount,
                   pathsCount, vulnMetadata, partials, rendered, error,
                   mergeVars, remVars>>

\* .catch(console.log)
CatchLog ==
    /\ pc = "catch"
    /\ consoleLog' = Append(consoleLog, error[1])
    /\ pc' = "done"
    /\ UNCHANGED <<input, summaryFlag, data, vulns, idx, result, uniqueCount,
                   pathsCount, vulnMetadata, partials, rendered, error,
                   callbackArgs, mergeVars, remVars>>

Next ==
    \/ ReadSource
    \/ Parse
    \/ ProcessData
    \/ GroupVuln
    \/ GroupReturn
    \/ AssignContext
    \/ RegisterPeerPartial
    \/ CompileAndRender
    \/ ReportCallback
    \/ CatchLog

Spec == Init /\ [][Next]_vars

----------------------------------------------------------------------------
(* mergeData on its own: Init draws dataArray, one action per statement. *)

InitMerge ==
    /\ PipeIdle
    /\ PipeLocalsInit
    /\ RemIdle
    /\ mpc = "map"
    /\ mArg \in SeqsUpTo(MergeReports, MaxReports)
    /\ mOut = NoMergeOut

\* lines 109-110
MergeConcat ==
    /\ mpc = "map"
    /\ mOut' = [mOut EXCEPT !.aggregateVulnerabilities = ConcatAll(VulnsArrays(mArg))]
    /\ mpc' = "unique"
    /\ UNCHANGED <<mArg, pipeVars, remVars>>

\* lines 112-113
MergeUniqueCount ==
    /\ mpc = "unique"
    /\ IF MergeThrows(mArg)
       THEN mpc' = "threw" /\ mOut' = mOut
       ELSE /\ mOut' = [mOut EXCEPT !.totalUniqueCount = TotalUniqueCount(mArg, <<0>>)]
            /\ mpc' = "dep"
    /\ UNCHANGED <<mArg, pipeVars, remVars>>

\* lines 114-115
MergeDepCount ==
    /\ mpc = "dep"
    /\ mOut' = [mOut EXCEPT !.totalDepCount = TotalDepCount(mArg, <<0>>)]
    /\ mpc' = "paths"
    /\ UNCHANGED <<mArg, pipeVars, remVars>>

\* lines 117-125
MergeReturn ==
    /\ mpc = "paths"
    /\ mOut' = [mOut EXCEPT !.returned =
                    <<MergedObject(mOut.aggregateVulnerabilities, mOut.totalUniqueCount,
                                   mOut.totalDepCount, Paths(mArg))>>]
    /\ mpc' = "returned"
    /\ UNCHANGED <<mArg, pipeVars, remVars>>

NextMerge ==
    \/ MergeConcat
    \/ MergeUniqueCount
    \/ MergeDepCount
    \/ MergeReturn

SpecMerge == InitMerge /\ [][NextMerge]_vars

----------------------------------------------------------------------------
(* hh.getRemediation.  A text is a sequence of tokens; the heading the code  *)
(* searches for, '## Remediation', is the two tokens of RemediationHeading,  *)
(* so a description may hold a part of it, or hold it more than once.        *)

RemediationHeading == <<"##", " Remediation">>

defaultRemediationText ==
    RemediationHeading \o <<"\nThere is no remediation at the moment">>

DescriptionTokens == {"##", " Remediation", "\ntext"}

Versions == {"1.2.3", "1.2.4"}

\* marked(text): the HTML rendering of a markdown text
marked(text) == [html |-> text]

\* mutant: the last occurrence of needle in text
LastIndexOf(text, needle) ==
    LET hits == {i \in 0..(Len(text) - Len(needle)) :
                    SubSeq(text, i + 1, i + Len(needle)) = needle}
    IN IF hits = {} THEN -1 ELSE CHOOSE i \in hits : \A j \in hits : j <= i

\* text.indexOf(needle): the 0-based place of its first occurrence, or -1
IndexOf(text, needle) ==
    LET hits == {i \in 0..(Len(text) - Len(needle)) :
                    SubSeq(text, i + 1, i + Len(needle)) = needle}
    IN IF hits = {} THEN -1 ELSE CHOOSE i \in hits : \A j \in hits : i <= j

\* text.substring(index)
Substring(text, index) == SubSeq(text, index + 1, Len(text))

\* xs.join(sep)
RECURSIVE Join(_, _)
Join(xs, sep) ==
    IF xs = <<>> THEN <<>>
    ELSE IF Len(xs) = 1 THEN xs
    ELSE <<Head(xs), sep>> \o Join(Tail(xs), sep)

\* `## Remediation\n Fixed in: ${fixedInJoined}`
FixedInText(fixedInJoined) ==
    RemediationHeading \o <<"\n Fixed in: ">> \o fixedInJoined

\* Array.isArray(fixedIn) && fixedIn.length
HasFixedIn(fixedIn) == fixedIn.kind = "array" /\ Len(fixedIn.items) # 0

InitRemediation ==
    /\ PipeIdle
    /\ PipeLocalsInit
    /\ MergeIdle
    /\ rpc = "call"
    /\ rDescription \in {<<>>} \cup {<<d>> : d \in SeqsUpTo(DescriptionTokens, MaxDescLen)}
    /\ rFixedIn \in {Missing, NotAnArray} \cup Arrays(Versions, MaxFixedIn)
    /\ rIndex = <<>>
    /\ rOut = <<>>

\* line 183: description.indexOf throws a TypeError when description is undefined
RemIndexOf ==
    /\ rpc = "call"
    /\ IF rDescription = <<>>
       THEN rpc' = "threw" /\ rIndex' = rIndex
       ELSE /\ rIndex' = <<IndexOf(rDescription[1], RemediationHeading)>>
            /\ rpc' = "indexed"
    /\ UNCHANGED <<rDescription, rFixedIn, rOut, pipeVars, mergeVars>>

\* lines 184-186
RemFromDescription ==
    /\ rpc = "indexed"
    /\ rIndex[1] > -1
    /\ rOut' = <<marked(Substring(rDescription[1], rIndex[1]))>>
    /\ rpc' = "return 185"
    /\ UNCHANGED <<rDescription, rFixedIn, rIndex, pipeVars, mergeVars>>

\* lines 188-191
RemFromFixedIn ==
    /\ rpc = "indexed"
    /\ ~(rIndex[1] > -1)
    /\ HasFixedIn(rFixedIn)
    /\ rOut' = <<marked(FixedInText(Join(rFixedIn.items, ", ")))>>
    /\ rpc' = "return 190"
    /\ UNCHANGED <<rDescription, rFixedIn, rIndex, pipeVars, mergeVars>>

\* line 194
RemDefault ==
    /\ rpc = "indexed"
    /\ ~(rIndex[1] > -1)
    /\ ~HasFixedIn(rFixedIn)
    /\ rOut' = <<marked(defaultRemediationText)>>
    /\ rpc' = "return 194"
    /\ UNCHANGED <<rDescription, rFixedIn, rIndex, pipeVars, mergeVars>>

NextRemediation ==
    \/ RemIndexOf
    \/ RemFromDescription
    \/ RemFromFixedIn
    \/ RemDefault

SpecRemediation == InitRemediation /\ [][NextRemediation]_vars

----------------------------------------------------------------------------
(* Properties of groupVulns and of the promise chain, checked under Spec. *)

\* the sequence groupVulns was called with (empty when it was no sequence)
Occurrences == IF vulns.kind = "array" THEN vulns.items ELSE <<>>

\* the occurrences the map callback has visited so far
Seen == SubSeq(Occurrences, 1, idx - 1)

DistinctIds(xs) ==
    \A i, j \in 1..Len(xs) : i # j => xs[i].id # xs[j].id

IdsOf(xs) == {xs[i].id : i \in 1..Len(xs)}

\* the first occurrence of identifier k in xs
FirstWithId(xs, k) ==
    xs[CHOOSE i \in 1..Len(xs) :
           xs[i].id = k /\ \A j \in 1..(i - 1) : xs[j].id # k]

WithId(xs, k) == SelectSeq(xs, LAMBDA v : v.id = k)

\* the metadata the specification derives from an occurrence
ExpectedRank(severity) ==
    CASE severity = <<"low">> -> <<0>>
      [] severity = <<"medium">> -> <<1>>
      [] severity = <<"high">> -> <<2>>
      [] OTHER -> <<>>

ExpectedMetadata(v) ==
    [id |-> v.id, title |-> v.title, name |-> v.name,
     info |-> IF v.info \in {<<>>, <<"">>} THEN <<"No information available.">>
              ELSE v.info,
     severity |-> v.severity,
     severityValue |-> ExpectedRank(v.severity),
     description |-> IF v.description \in {<<>>, <<"">>}
                     THEN <<"No description available.">>
                     ELSE v.description,
     fixedIn |-> v.fixedIn,
     packageManager |-> v.packageManager]

\* C1: whenever groupVulns returns for a sequence of occurrences, its unique
\* count is at most its paths count, and the two are equal exactly when the
\* identifiers of the sequence are pairwise distinct.
C1_UniqueAtMostPaths ==
    (vulnMetadata # <<>> /\ vulns.kind = "array") =>
        /\ vulnMetadata[1].vulnerabilitiesUniqueCount
               <= vulnMetadata[1].vulnerabilitiesPathsCount
        /\ (vulnMetadata[1].vulnerabilitiesUniqueCount
               = vulnMetadata[1].vulnerabilitiesPathsCount) <=> DistinctIds(vulns.items)

\* groupVulns returned for a sequence in which an identifier repeats
C1_Witness ==
    /\ vulnMetadata # <<>> /\ vulns.kind = "array"
    /\ ~DistinctIds(vulns.items)
    /\ vulnMetadata[1].vulnerabilitiesUniqueCount = 2
    /\ vulnMetadata[1].vulnerabilitiesPathsCount = 3

\* C2: at every point of the grouping loop and in the returned mapping, each
\* group's metadata is the metadata of the first occurrence seen with its
\* identifier (info and description replaced by their fallback texts when
\* missing or empty) and its list is the occurrences seen with that
\* identifier, in input order; so a later occurrence extends the list and
\* leaves the metadata as it was.
C2_MetadataOfFirstOccurrence ==
    /\ DOMAIN result = IdsOf(Seen)
    /\ \A k \in DOMAIN result :
          /\ result[k].metadata = ExpectedMetadata(FirstWithId(Seen, k))
          /\ result[k].list = WithId(Seen, k)
    /\ vulnMetadata # <<>> =>
          /\ vulnMetadata[1].vulnerabilities = result
          /\ Seen = Occurrences

\* a group returned with two occurrences whose info differs: the first has none
C2_Witness ==
    /\ vulnMetadata # <<>>
    /\ \E k \in DOMAIN result :
          /\ Len(result[k].list) >= 2
          /\ result[k].list[1].info = <<>>
          /\ result[k].list[2].info = <<"info 1">>
          /\ result[k].metadata.info = <<"No information available.">>
          /\ result[k].metadata.title = result[k].list[1].title

\* C3: the context the template is called with has uniqueCount equal to the
\* number of distinct identifiers of the (merged) occurrence list, summary
\* equal to "<N> vulnerable dependency paths" with N the length of that list,
\* and showSummaryOnly equal to the caller's flag, in both modes.
C3_ContextCounts ==
    rendered # <<>> =>
        /\ rendered[1].context.uniqueCount = <<Cardinality(IdsOf(Occurrences))>>
        /\ rendered[1].context.summary
              = <<ToString(Len(Occurrences)) \o " vulnerable dependency paths">>
        /\ rendered[1].context.showSummaryOnly = <<summaryFlag>>
        /\ Occurrences = IF input.parsed.isArray
                          THEN ConcatAll(VulnsArrays(input.parsed.reports))
                          ELSE VulnsOrEmpty(input.parsed.reports[1])

\* a multi-report document whose two reports share an identifier was rendered
C3_Witness ==
    /\ rendered # <<>>
    /\ input.parsed.isArray
    /\ summaryFlag
    /\ Len(Occurrences) = 2
    /\ rendered[1].context.uniqueCount = <<1>>
    /\ rendered[1].context.summary = <<"2 vulnerable dependency paths">>

SourceFails == input.read = "error" \/ input.text # "json"

\* C6 as stated: after a failed read or parse nothing is grouped or rendered and
\* the completion callback receives the error.
C6_CallbackReceivesError ==
    (SourceFails /\ pc = "done") =>
        /\ vulnMetadata = <<>>
        /\ rendered = <<>>
        /\ callbackArgs = <<error[1]>>

\* C6 amended: after a failed read or parse the chain never reaches
\* processData, nothing is grouped or rendered, the completion callback is
\* never invoked, and the error is handed to console.log only.
C6_FailureIsLoggedOnly ==
    SourceFails =>
        /\ pc \in {"read", "parse", "catch", "done"}
        /\ data = <<>> /\ result = <<>> /\ vulnMetadata = <<>>
        /\ rendered = <<>>
        /\ callbackArgs = <<>>
        /\ pc \in {"catch", "done"} =>
              error = <<IF input.read = "error" THEN "IOError" ELSE "SyntaxError">>
        /\ pc = "done" => consoleLog = error

\* the chain ended on a text that is no JSON
C6_Witness ==
    /\ input.read = "ok" /\ input.text = "garbage"
    /\ pc = "done"
    /\ consoleLog = <<"SyntaxError">>

\* C8: called with an absent value or a value that is no sequence, groupVulns
\* returns the empty mapping and two zero counts and throws nothing; a single
\* report with such a vulnerabilities field is rendered with an empty mapping,
\* uniqueCount 0 and the summary "0 vulnerable dependency paths".
C8_DegradedInputIsEmpty ==
    (data # <<>> /\ vulns.kind # "array") =>
        /\ error # <<"TypeError">>
        /\ pc # "group" => vulnMetadata # <<>>
        /\ vulnMetadata # <<>> =>
              /\ DOMAIN vulnMetadata[1].vulnerabilities = {}
              /\ vulnMetadata[1].vulnerabilitiesUniqueCount = 0
              /\ vulnMetadata[1].vulnerabilitiesPathsCount = 0
        /\ rendered # <<>> =>
              /\ DOMAIN rendered[1].context.vulnerabilities.items = {}
              /\ rendered[1].context.uniqueCount = <<0>>
              /\ rendered[1].context.summary = <<"0 vulnerable dependency paths">>

\* a single report whose vulnerabilities field is no sequence was rendered
C8_Witness ==
    /\ rendered # <<>>
    /\ ~input.parsed.isArray
    /\ input.parsed.reports[1].vulnerabilities.kind = "object"
    /\ vulns.kind = "object"

----------------------------------------------------------------------------
(* Properties of mergeData, checked under SpecMerge. *)

\* a report's dependencyCount, a missing one counting as zero
DepOrZero(report) ==
    IF report.dependencyCount = <<>> THEN 0 ELSE report.dependencyCount[1]

RECURSIVE SumDep(_)
SumDep(reports) ==
    IF reports = <<>> THEN 0 ELSE DepOrZero(Head(reports)) + SumDep(Tail(reports))

\* the lengths of the lists of the first n reports, added up
RECURSIVE SumLen(_, _)
SumLen(reports, n) ==
    IF n = 0 THEN 0 ELSE SumLen(reports, n - 1) + Len(reports[n].vulnerabilities.items)

\* C4: the dependencyCount mergeData returns is the sum of the reports'
\* dependencyCounts, a missing one counting as zero.
C4_DependencyCountIsSum ==
    mpc = "returned" => mOut.returned[1].dependencyCount = <<SumDep(mArg)>>

\* C5: a report without a vulnerabilities list does not make mergeData fail; it
\* adds nothing to the merged list, and the aggregate is returned.
C5_MissingListIsNoError ==
    (mpc \notin {"map", "unique"}
        /\ \E i \in 1..Len(mArg) : mArg[i].vulnerabilities = Missing) =>
        /\ mpc # "threw"
        /\ mOut.aggregateVulnerabilities
              = ConcatAll([i \in 1..Len(mArg) |-> mArg[i].vulnerabilities.items])
        /\ mpc = "returned" => mOut.returned # <<>>

\* C9: when every report carries a list, the list mergeData returns is the
\* reports' lists one after the other, in report order, each in its own order;
\* its length is the sum of their lengths.
C9_MergedListIsConcatenation ==
    mpc = "returned" =>
        LET merged == mOut.returned[1].vulnerabilities.items
        IN /\ \A r \in 1..Len(mArg) : mArg[r].vulnerabilities.kind = "array"
           /\ Len(merged) = SumLen(mArg, Len(mArg))
           /\ \A r \in 1..Len(mArg) :
                 \A p \in 1..Len(mArg[r].vulnerabilities.items) :
                     merged[SumLen(mArg, r - 1) + p] = mArg[r].vulnerabilities.items[p]

\* two reports were merged, the first with two different occurrences
C9_Witness ==
    /\ mpc = "returned"
    /\ Len(mArg) = 2
    /\ Len(mArg[1].vulnerabilities.items) = 2
    /\ mArg[1].vulnerabilities.items[1] # mArg[1].vulnerabilities.items[2]
    /\ Len(mArg[2].vulnerabilities.items) = 1
    /\ mArg[2].vulnerabilities.items[1] # mArg[1].vulnerabilities.items[2]
    /\ Len(mOut.returned[1].vulnerabilities.items) = 3

----------------------------------------------------------------------------
(* Properties of getRemediation, checked under SpecRemediation. *)

Returned == rpc \in {"return 185", "return 190", "return 194"}

\* the description holds the heading at 1-based place i
HeadingAt(i) ==
    /\ rDescription # <<>>
    /\ i \in 1..(Len(rDescription[1]) - 1)
    /\ rDescription[1][i] = "##"
    /\ rDescription[1][i + 1] = " Remediation"

HasHeading ==
    rDescription # <<>> /\ \E i \in 1..Len(rDescription[1]) : HeadingAt(i)

\* C7: getRemediation never throws; without a description it returns the
\* heading and the joined fixedIn versions when fixedIn is a non-empty
\* sequence, and the default text otherwise.
C7_NeverThrows ==
    /\ rpc # "threw"
    /\ (rDescription = <<>> /\ rpc # "call") =>
          rOut = <<marked(IF rFixedIn.kind = "array" /\ rFixedIn.items # <<>>
                          THEN FixedInText(Join(rFixedIn.items, ", "))
                          ELSE defaultRemediationText)>>

\* C10: a description that holds the heading is answered from the description,
\* from its first heading on, whatever fixedIn is; the fixedIn text and the
\* default text are returned only for a description without the heading.
C10_DescriptionHasPriority ==
    /\ (Returned /\ HasHeading) =>
          /\ rpc = "return 185"
          /\ \E i \in 1..Len(rDescription[1]) :
                /\ HeadingAt(i)
                /\ \A j \in 1..(i - 1) : ~HeadingAt(j)
                /\ rOut = <<marked(SubSeq(rDescription[1], i, Len(rDescription[1])))>>
    /\ rpc \in {"return 190", "return 194"} => ~HasHeading
    /\ rpc = "return 185" => HasHeading

\* answered from a description that holds the heading twice, from the first
\* one on, although fixedIn lists two versions
C10_Witness ==
    /\ rpc = "return 185"
    /\ HeadingAt(1) /\ HeadingAt(3)
    /\ rOut = <<marked(RemediationHeading \o RemediationHeading)>>
    /\ rFixedIn.kind = "array" /\ Len(rFixedIn.items) = 2

====
